---- MODULE Spec2Model ----
(***************************************************************************)
(* Model of the upload / pipeline-status poller of static/app.js.          *)
(*                                                                         *)
(* The browser runs every callback to its next await atomically, so each   *)
(* action below is one such run: the body of uploadFiles up to its fetch,  *)
(* its continuation after the fetch, one firing of the interval callback   *)
(* of startPipelinePolling up to its fetch, and the continuation of that   *)
(* callback once the status response (or its failure) has arrived.         *)
(***************************************************************************)
EXTENDS Integers, FiniteSets, Sequences, TLC

\* Document ids the backend hands out; an id is given to one upload only.
\* Two documents show every way one document's poller can touch another's state.
Docs == {1, 2}

\* Status requests of one document that may be awaiting their response.
MaxInFlight == 2

\* POST /api/upload requests that may be awaiting their response.
MaxUploading == 2

\* Values of ocr_status / extraction_status in a status response.  "absent"
\* is a missing, null or empty field; "pending" also stands for any string
\* the poller does not compare against.
Statuses == {"absent", "pending", "processing", "completed", "failed"}

\* Contents of the .file-size span of a document's upload row.
Labels == {"none", "ocr_processing", "stage1", "ocr_failed", "stage2_analyzing",
           "complete", "extract_failed", "stage2_starting"}

VARIABLES
    uploadedFiles,   \* ids d whose element upload-status-d is in #uploadedFiles
    statusText,      \* statusText[d]: innerHTML of the .file-size span of d's row
    interval,        \* interval[d]: "none" | "active" | "cleared" (the setInterval handle of d)
    activePollers,   \* keys of the activePollers object
    fetching,        \* fetching[d]: status requests of d awaiting their response
    dashboardLoads,  \* dashboardLoads[d]: loadDashboard() calls made by d's poller
    uploading,       \* uploadFiles calls awaiting the response of POST /api/upload
    last,            \* the callback run by the last step and the documents it ran for
    settled,         \* ids whose status requests are from now on answered with a terminal status
    input,           \* the call of a rendering function under study: its name and arguments
    output           \* what that call returned, once it has run

vars == <<uploadedFiles, statusText, interval, activePollers, fetching,
          dashboardLoads, uploading, last, settled, input, output>>

\* What the upload and polling callbacks never touch.
aux == <<settled, input, output>>

\* No rendering call is under study.
NoCall == [fn |-> "none"]

NotRun == [done |-> FALSE]

Returned(v) == [done |-> TRUE, val |-> v]

\* docs: the document of a poller callback, the accepted batch of an upload.
Step(op, D) == [op |-> op, docs |-> D]

Ops == {"init", "upload_begin", "upload_ok", "upload_fail", "tick",
        "resp_fail", "resp_null", "resp_ok"}

TypeOK ==
    /\ uploadedFiles \subseteq Docs
    /\ statusText \in [Docs -> Labels]
    /\ interval \in [Docs -> {"none", "active", "cleared"}]
    /\ activePollers \subseteq Docs
    /\ fetching \in [Docs -> 0..MaxInFlight]
    /\ dashboardLoads \in [Docs -> Nat]
    /\ uploading \in 0..MaxUploading
    /\ last \in [op : Ops, docs : SUBSET Docs]
    /\ settled \subseteq Docs
    /\ output.done \in BOOLEAN

Init ==
    /\ uploadedFiles = {}
    /\ statusText = [d \in Docs |-> "none"]
    /\ interval = [d \in Docs |-> "none"]
    /\ activePollers = {}
    /\ fetching = [d \in Docs |-> 0]
    /\ dashboardLoads = [d \in Docs |-> 0]
    /\ uploading = 0
    /\ last = Step("init", {})
    /\ settled = {}
    /\ input = NoCall
    /\ output = NotRun

----------------------------------------------------------------------------
(* uploadFiles *)

\* uploadedFiles.innerHTML = '' (and the replacement by the error row):
\* every upload-status-* element leaves the document.
ClearUploadedFiles(files) == {}

\* Lines 183-193: the container is emptied, placeholder rows without an id
\* are appended, and the POST is sent.
UploadBegin ==
    /\ uploading < MaxUploading
    /\ uploading' = uploading + 1
    /\ uploadedFiles' = ClearUploadedFiles(uploadedFiles)
    /\ last' = Step("upload_begin", {})
    /\ UNCHANGED aux
    /\ UNCHANGED <<statusText, interval, activePollers, fetching, dashboardLoads>>

\* startPipelinePolling(docId): setInterval schedules the callback and the
\* handle is stored under activePollers[docId].
StartInterval(iv, S) == [d \in Docs |-> IF d \in S THEN "active" ELSE iv[d]]

RegisterPollers(reg, S) == reg \cup S

\* Lines 194-202: the response lists the accepted files; the container is
\* emptied again, and each file gets its row (id upload-status-<id>, text
\* "OCR Processing...") and its poller.
UploadAccepted(S) ==
    /\ uploading > 0
    /\ \A d \in S : interval[d] = "none"
    /\ uploading' = uploading - 1
    /\ uploadedFiles' = ClearUploadedFiles(uploadedFiles) \cup S
    /\ statusText' = [d \in Docs |-> IF d \in S THEN "ocr_processing" ELSE statusText[d]]
    /\ interval' = StartInterval(interval, S)
    /\ activePollers' = RegisterPollers(activePollers, S)
    /\ last' = Step("upload_ok", S)
    /\ UNCHANGED aux
    /\ UNCHANGED <<fetching, dashboardLoads>>

\* Lines 203-205: the fetch or the parse of its body threw.
UploadFailed ==
    /\ uploading > 0
    /\ uploading' = uploading - 1
    /\ uploadedFiles' = ClearUploadedFiles(uploadedFiles)
    /\ last' = Step("upload_fail", {})
    /\ UNCHANGED aux
    /\ UNCHANGED <<statusText, interval, activePollers, fetching, dashboardLoads>>

----------------------------------------------------------------------------
(* startPipelinePolling: the interval callback *)

\* clearInterval(interval); clearing a handle that is already cleared does nothing.
ClearInterval(iv, d) == [iv EXCEPT ![d] = "cleared"]

\* DeletePoller with the whole registry reset instead of one key deleted.
DeletePoller_DropsAll(reg, d) == {}

\* delete activePollers[docId]
DeletePoller(reg, d) == reg \ {d}

\* OcrBranch without the stop and the return of line 220.
OcrBranch_FailedKeepsPolling(ocr, cur) ==
    IF ocr = "processing" THEN [label |-> "stage1", stop |-> FALSE, ret |-> FALSE]
    ELSE IF ocr = "failed" THEN [label |-> "ocr_failed", stop |-> FALSE, ret |-> FALSE]
    ELSE [label |-> cur, stop |-> FALSE, ret |-> FALSE]

\* Lines 216-221: the first if / else-if.  ret is the return of line 220.
OcrBranch(ocr, cur) ==
    IF ocr = "processing" THEN [label |-> "stage1", stop |-> FALSE, ret |-> FALSE]
    ELSE IF ocr = "failed" THEN [label |-> "ocr_failed", stop |-> TRUE, ret |-> TRUE]
    ELSE [label |-> cur, stop |-> FALSE, ret |-> FALSE]

\* ExtractionBranch without the stop of line 229.
ExtractionBranch_FailedKeepsPolling(ocr, ext, cur) ==
    IF ocr = "completed" /\ ext = "processing"
        THEN [label |-> "stage2_analyzing", stop |-> FALSE]
    ELSE IF ext = "completed" THEN [label |-> "complete", stop |-> TRUE]
    ELSE IF ext = "failed" THEN [label |-> "extract_failed", stop |-> FALSE]
    ELSE IF ocr = "completed" /\ ext \in {"absent", "pending"}
        THEN [label |-> "stage2_starting", stop |-> FALSE]
    ELSE [label |-> cur, stop |-> FALSE]

\* ExtractionBranch without the ocr_status test of line 230.
ExtractionBranch_StartsWithoutOcr(ocr, ext, cur) ==
    IF ocr = "completed" /\ ext = "processing"
        THEN [label |-> "stage2_analyzing", stop |-> FALSE]
    ELSE IF ext = "completed" THEN [label |-> "complete", stop |-> TRUE]
    ELSE IF ext = "failed" THEN [label |-> "extract_failed", stop |-> TRUE]
    ELSE IF ext \in {"absent", "pending"}
        THEN [label |-> "stage2_starting", stop |-> FALSE]
    ELSE [label |-> cur, stop |-> FALSE]

\* Lines 222-232: the second if / else-if chain.
ExtractionBranch(ocr, ext, cur) ==
    IF ocr = "completed" /\ ext = "processing"
        THEN [label |-> "stage2_analyzing", stop |-> FALSE]
    ELSE IF ext = "completed" THEN [label |-> "complete", stop |-> TRUE]
    ELSE IF ext = "failed" THEN [label |-> "extract_failed", stop |-> TRUE]
    ELSE IF ocr = "completed" /\ ext \in {"absent", "pending"}
        THEN [label |-> "stage2_starting", stop |-> FALSE]
    ELSE [label |-> cur, stop |-> FALSE]

\* Lines 216-232 as a whole: the label the span ends with and whether the
\* poller stopped (clearInterval, delete, loadDashboard).
HandleStatus(ocr, ext, cur) ==
    LET a == OcrBranch(ocr, cur)
    IN  IF a.ret THEN [label |-> a.label, stop |-> TRUE]
        ELSE ExtractionBranch(ocr, ext, a.label)

\* The callback fires and sends GET /api/documents/<id>/status (line 211).
Tick(d) ==
    /\ interval[d] = "active"
    /\ fetching[d] < MaxInFlight
    /\ fetching' = [fetching EXCEPT ![d] = @ + 1]
    /\ last' = Step("tick", {d})
    /\ UNCHANGED aux
    /\ UNCHANGED <<uploadedFiles, statusText, interval, activePollers,
                   dashboardLoads, uploading>>

\* FetchError with the catch stopping the poller.
FetchError_Stops(iv, d) == ClearInterval(iv, d)

\* fetch or res.json() rejected: control goes from line 211/212 to the
\* catch of line 233, which only logs.
FetchError(iv, d) == iv

RespondFail(d) ==
    /\ fetching[d] > 0
    /\ fetching' = [fetching EXCEPT ![d] = @ - 1]
    /\ interval' = FetchError(interval, d)
    /\ last' = Step("resp_fail", {d})
    /\ UNCHANGED aux
    /\ UNCHANGED <<uploadedFiles, statusText, activePollers, dashboardLoads, uploading>>

\* Line 214.
AnchorGone(iv, d) == ClearInterval(iv, d)

\* The body parsed to null: line 214 still runs; with the row present
\* data.ocr_status throws at line 216 and line 233 logs it.
RespondNull(d) ==
    /\ fetching[d] > 0
    /\ fetching' = [fetching EXCEPT ![d] = @ - 1]
    /\ interval' = IF d \notin uploadedFiles THEN AnchorGone(interval, d) ELSE interval
    /\ last' = Step("resp_null", {d})
    /\ UNCHANGED aux
    /\ UNCHANGED <<uploadedFiles, statusText, activePollers, dashboardLoads, uploading>>

\* Lines 213-232 for a body that parsed to an object.
RespondOk(d, ocr, ext) ==
    /\ fetching[d] > 0
    /\ fetching' = [fetching EXCEPT ![d] = @ - 1]
    /\ last' = Step("resp_ok", {d})
    /\ UNCHANGED aux
    /\ IF d \notin uploadedFiles
         THEN /\ interval' = AnchorGone(interval, d)
              /\ UNCHANGED <<statusText, activePollers, dashboardLoads>>
         ELSE LET r == HandleStatus(ocr, ext, statusText[d])
              IN  /\ statusText' = [statusText EXCEPT ![d] = r.label]
                  /\ IF r.stop
                       THEN /\ interval' = ClearInterval(interval, d)
                            /\ activePollers' = DeletePoller(activePollers, d)
                            /\ dashboardLoads' = [dashboardLoads EXCEPT ![d] = @ + 1]
                       ELSE UNCHANGED <<interval, activePollers, dashboardLoads>>
    /\ UNCHANGED <<uploadedFiles, uploading>>

Next ==
    \/ UploadBegin
    \/ \E S \in SUBSET Docs : UploadAccepted(S)
    \/ UploadFailed
    \/ \E d \in Docs : Tick(d)
    \/ \E d \in Docs : RespondFail(d)
    \/ \E d \in Docs : RespondNull(d)
    \/ \E d \in Docs, ocr \in Statuses, ext \in Statuses : RespondOk(d, ocr, ext)

Spec == Init /\ [][Next]_vars

----------------------------------------------------------------------------
(* Vocabulary of the properties *)

\* The last step was the continuation of d's interval callback after its fetch.
Responses == {"resp_ok", "resp_null", "resp_fail"}

\* The guard of Tick: the callback of d can fire and send a status request.
TickEnabled(d) == interval[d] = "active" /\ fetching[d] < MaxInFlight

\* The three terminal observations.
Terminal(ocr, ext) == ocr = "failed" \/ ext = "completed" \/ ext = "failed"

\* Labels that speak of the extraction phase.
ExtractionLabels == {"stage2_analyzing", "stage2_starting", "complete", "extract_failed"}

\* The seven-case precedence list, first match wins.
PrecedenceStage(ocr, ext, cur) ==
    IF ocr = "processing" THEN [label |-> "stage1", stop |-> FALSE]
    ELSE IF ocr = "failed" THEN [label |-> "ocr_failed", stop |-> TRUE]
    ELSE IF ocr = "completed" /\ ext = "processing"
        THEN [label |-> "stage2_analyzing", stop |-> FALSE]
    ELSE IF ext = "completed" THEN [label |-> "complete", stop |-> TRUE]
    ELSE IF ext = "failed" THEN [label |-> "extract_failed", stop |-> TRUE]
    ELSE IF ocr = "completed" /\ ext \in {"absent", "pending"}
        THEN [label |-> "stage2_starting", stop |-> FALSE]
    ELSE [label |-> cur, stop |-> FALSE]

\* Case 7 of the list: none of cases 1-6 applies.
NoCaseMatches(ocr, ext) ==
    /\ ocr \notin {"processing", "failed"}
    /\ ext \notin {"completed", "failed"}
    /\ ocr # "completed"

----------------------------------------------------------------------------
(* Properties *)

\* C1: over a document's whole polling lifecycle its poller calls
\* loadDashboard at most once, whatever the interleaving of ticks and responses.
C1_RefreshAtMostOnce == \A d \in Docs : dashboardLoads[d] <= 1

\* C2: for every status response handled with the row present, the label the
\* tick ends with and its decision to stop are those of the seven-case
\* precedence list evaluated first match wins.
C2_StageFollowsPrecedence ==
    [][\A d \in Docs, ocr \in Statuses, ext \in Statuses :
        (RespondOk(d, ocr, ext) /\ d \in uploadedFiles) =>
            LET s == PrecedenceStage(ocr, ext, statusText[d])
            IN  /\ statusText'[d] = s.label
                /\ dashboardLoads'[d] = dashboardLoads[d] + (IF s.stop THEN 1 ELSE 0)
                /\ (~s.stop => interval'[d] = interval[d])]_vars

\* C3: when the callback has handled a response it classified as terminal
\* (ocr failed, extraction completed or extraction failed), the timer is
\* cleared, activePollers has no entry for the document and loadDashboard has
\* been called; a cleared timer stays cleared and never ticks again.
C3_TerminalStops ==
    [][\A d \in Docs :
        /\ (last'.op = "resp_ok" /\ last'.docs = {d} /\ d \in uploadedFiles) =>
             \A ocr \in Statuses, ext \in Statuses :
                 (Terminal(ocr, ext) /\ RespondOk(d, ocr, ext)) =>
                     /\ interval'[d] = "cleared"
                     /\ d \notin activePollers'
                     /\ dashboardLoads'[d] = dashboardLoads[d] + 1
        /\ interval[d] = "cleared" =>
             /\ interval'[d] = "cleared"
             /\ ~(last'.op = "tick" /\ d \in last'.docs)]_vars

C3_Witness ==
    \E d \in Docs :
        /\ last.op = "resp_ok" /\ d \in last.docs
        /\ d \in uploadedFiles
        /\ statusText[d] = "extract_failed"
        /\ interval[d] = "cleared"
        /\ d \notin activePollers
        /\ dashboardLoads[d] = 1

\* C4: a tick that fires while the row upload-status-d is gone stops the
\* poller whatever the outcome of its fetch: when that tick's callback
\* finishes the timer is cleared, and no label changed and no refresh ran.
C4_AnchorGoneStops ==
    [][\A d \in Docs :
        ( /\ last.op = "tick" /\ last.docs = {d}
          /\ d \notin uploadedFiles
          /\ fetching[d] = 1
          /\ last'.op \in Responses /\ last'.docs = {d} ) =>
            /\ interval'[d] = "cleared"
            /\ statusText' = statusText
            /\ dashboardLoads' = dashboardLoads]_vars

\* C5: activePollers has an entry for a document only while that document's
\* timer is scheduled.
C5_RegistryOnlyWhileLive ==
    \A d \in Docs : d \in activePollers => interval[d] = "active"

\* C6: once a poller's timer is cleared, a response of that document that
\* arrives later changes neither the label, nor the refresh count, nor the
\* registry.
C6_StaleResponseIgnored ==
    [][\A d \in Docs :
        (interval[d] = "cleared" /\ last'.op \in Responses /\ last'.docs = {d}) =>
            /\ statusText'[d] = statusText[d]
            /\ dashboardLoads'[d] = dashboardLoads[d]
            /\ activePollers' = activePollers]_vars

\* C7: a callback whose fetch failed changes neither the timer, nor the
\* registry, nor any label, nor the refresh count, and a timer that was
\* scheduled can fire again and send a new request.
C7_FetchFailureKeepsPolling ==
    [][\A d \in Docs :
        (last'.op = "resp_fail" /\ last'.docs = {d}) =>
            /\ interval' = interval
            /\ activePollers' = activePollers
            /\ statusText' = statusText
            /\ dashboardLoads' = dashboardLoads
            /\ (interval[d] = "active" => TickEnabled(d)')]_vars

C7_Witness ==
    \E d \in Docs :
        /\ last.op = "resp_fail" /\ d \in last.docs
        /\ interval[d] = "active"
        /\ d \in activePollers
        /\ d \in uploadedFiles
        /\ statusText[d] = "stage1"

\* C8: a response whose ocr_status is not completed gets none of the
\* extraction-phase labels rendered and takes no extraction-based stop.
C8_NoExtractionClaimBeforeOcr ==
    [][\A d \in Docs, ocr \in Statuses, ext \in Statuses :
        (RespondOk(d, ocr, ext) /\ d \in uploadedFiles /\ ocr # "completed") =>
            /\ statusText'[d] \in ExtractionLabels => statusText'[d] = statusText[d]
            /\ ocr # "failed" =>
                 /\ interval'[d] = interval[d]
                 /\ dashboardLoads'[d] = dashboardLoads[d]
                 /\ activePollers' = activePollers]_vars

\* C9: a response handled with the row present that matches none of the
\* stage cases (its fields missing included), or whose body is null, changes
\* no label, timer, registry entry or refresh count, and a scheduled timer can
\* fire again.
C9_NoMatchNoChange ==
    [][\A d \in Docs :
        ( /\ d \in uploadedFiles
          /\ last'.docs = {d}
          /\ \/ /\ last'.op = "resp_ok"
                /\ \E ocr \in Statuses, ext \in Statuses :
                      NoCaseMatches(ocr, ext) /\ RespondOk(d, ocr, ext)
             \/ last'.op = "resp_null" ) =>
            /\ statusText' = statusText
            /\ interval' = interval
            /\ activePollers' = activePollers
            /\ dashboardLoads' = dashboardLoads
            /\ (interval[d] = "active" => TickEnabled(d)')]_vars

C9_Witness ==
    \E d \in Docs :
        /\ last.op = "resp_ok" /\ d \in last.docs
        /\ d \in uploadedFiles
        /\ statusText[d] = "ocr_processing"
        /\ interval[d] = "active"
        /\ d \in activePollers

\* C10: a step of document a's poller leaves every other document's registry
\* entry, timer and label as they were: a tick or a response of a changes
\* nothing of b, and starting the pollers of an accepted batch changes nothing
\* of a document outside the batch.
C10_PollersIndependent ==
    [][\A a \in Docs, b \in Docs :
        a # b =>
          /\ (last'.op \in Responses \cup {"tick"} /\ last'.docs = {a}) =>
                 /\ interval'[b] = interval[b]
                 /\ (b \in activePollers' <=> b \in activePollers)
                 /\ statusText'[b] = statusText[b]
                 /\ (b \in uploadedFiles' <=> b \in uploadedFiles)
          /\ (last'.op = "upload_ok" /\ a \in last'.docs /\ b \notin last'.docs) =>
                 /\ interval'[b] = interval[b]
                 /\ (b \in activePollers' <=> b \in activePollers)
                 /\ statusText'[b] = statusText[b]]_vars

C10_Witness ==
    \E a \in Docs, b \in Docs :
        /\ a # b
        /\ last.op = "resp_ok" /\ last.docs = {a}
        /\ interval[a] = "cleared" /\ a \notin activePollers
        /\ dashboardLoads[a] = 1
        /\ interval[b] = "active" /\ b \in activePollers
        /\ b \in uploadedFiles /\ statusText[b] = "stage2_analyzing"

----------------------------------------------------------------------------
(* The poller with a backend that settles and a network that delivers *)

\* The pipeline of d has reached a terminal status and the last response
\* that was produced before that has been delivered: the backend never
\* leaves a terminal status, so every later body carries one.
Settle(d) ==
    /\ interval[d] # "none"
    /\ d \notin settled
    /\ settled' = settled \cup {d}
    /\ UNCHANGED <<uploadedFiles, statusText, interval, activePollers, fetching,
                   dashboardLoads, uploading, last, input, output>>

\* A successful status response of this backend.
LiveRespondOk(d, ocr, ext) ==
    /\ d \in settled => Terminal(ocr, ext)
    /\ RespondOk(d, ocr, ext)

\* Rows leave the page only when uploadFiles runs (lines 185, 195, 204):
\* the rows of a batch stay as long as no upload follows it.
LiveUploadBegin ==
    /\ uploadedFiles = {}
    /\ uploading = 0
    /\ UploadBegin

NextLive ==
    \/ LiveUploadBegin
    \/ \E S \in SUBSET Docs : UploadAccepted(S)
    \/ UploadFailed
    \/ \E d \in Docs : Settle(d)
    \/ \E d \in Docs : Tick(d)
    \/ \E d \in Docs : RespondFail(d)
    \/ \E d \in Docs : RespondNull(d)
    \/ \E d \in Docs, ocr \in Statuses, ext \in Statuses : LiveRespondOk(d, ocr, ext)

\* setInterval keeps firing an uncleared timer (Tick); every pipeline ends
\* (Settle); status requests may fail any number of times but succeed again
\* and again (LiveRespondOk).
SpecLive ==
    /\ Init
    /\ [][NextLive]_vars
    /\ \A d \in Docs :
          /\ WF_vars(Tick(d))
          /\ WF_vars(Settle(d))
          /\ SF_vars(\E ocr \in Statuses, ext \in Statuses : LiveRespondOk(d, ocr, ext))

\* The poller of d has stopped the way a terminal observation stops it.
Stopped(d) ==
    /\ interval[d] = "cleared"
    /\ d \notin activePollers
    /\ dashboardLoads[d] >= 1

\* C17: a started poller whose row stays in the page, whose pipeline ends in
\* a terminal status and whose status requests keep succeeding, eventually
\* stops: timer cleared, registry entry removed, dashboard refresh triggered.
C17_PollerEventuallyStops ==
    \A d \in Docs : (interval[d] = "active" /\ d \in uploadedFiles) ~> Stopped(d)

C17_Witness ==
    \E d \in Docs :
        /\ d \in settled
        /\ d \in uploadedFiles
        /\ last.op = "resp_ok" /\ last.docs = {d}
        /\ Stopped(d)

\* C18: a new run of uploadFiles does not end the observation of a document
\* of an earlier batch: such a document (started, its row no longer in the
\* page) is polled until its own terminal observation and refresh, so its
\* timer is cleared only once its refresh has been triggered.
C18_EarlierBatchStillObserved ==
    \A d \in Docs :
        (d \notin uploadedFiles /\ interval[d] = "cleared") => dashboardLoads[d] >= 1

----------------------------------------------------------------------------
(* renderIntegrityWarnings *)

\* Historical years the checks look at (the loops of lines 410 and 424).
HistWindow == 3

\* Longest net_revenue_hist array handed to the analyzer.
MaxHist == 4

\* Longest _corrections_applied / _derivations_applied list.
MaxNotes == 2

\* JSON values of the financial arrays.
Null == [k |-> "null", v |-> 0]

Undefined == [k |-> "undefined", v |-> 0]

Num(n) == [k |-> "number", v |-> n]

\* x != null, which is false for null and for undefined.
NotNullish(x) == x.k \notin {"null", "undefined"}

\* arr[i] for a 0-based i; reading past the end of an array gives undefined.
At(arr, i) == IF i + 1 <= Len(arr) THEN arr[i + 1] ELSE Undefined

\* Math.abs
Abs(n) == IF n < 0 THEN -n ELSE n

\* ext._corrections_applied || [] : a missing list reads as the empty list.
OrEmpty(list) == IF list.present THEN list.items ELSE <<>>

\* One entry of warnings.  kind, year, a and b stand for the message text:
\* the count of rule 1, the year and the two money values of rules 2 and 3,
\* the two counts of rule 4.
Warning(level, kind, year, a, b) ==
    [level |-> level, kind |-> kind, year |-> year, a |-> a, b |-> b]

\* Lines 397-404.
Check1(revHist) ==
    LET nullRevCount == Cardinality({i \in 1..Len(revHist) : revHist[i] = Null})
    IN  IF nullRevCount > 0
            THEN <<Warning("error", "revenue_missing", 0, nullRevCount, HistWindow)>>
            ELSE <<>>

\* Check2Year with >= for the > of line 413.
Check2Year_AtLeast(gp, sga, ebitda, i) ==
    IF NotNullish(At(gp, i)) /\ NotNullish(At(sga, i)) /\ NotNullish(At(ebitda, i))
        THEN LET oi == At(gp, i).v - At(sga, i).v
             IN  IF oi >= At(ebitda, i).v
                     THEN <<Warning("error", "oi_exceeds_ebitda", i + 1, oi, At(ebitda, i).v)>>
                     ELSE <<>>
        ELSE <<>>

\* Lines 411-419: one pass of the loop of check 2.
Check2Year(gp, sga, ebitda, i) ==
    IF NotNullish(At(gp, i)) /\ NotNullish(At(sga, i)) /\ NotNullish(At(ebitda, i))
        THEN LET oi == At(gp, i).v - At(sga, i).v
             IN  IF oi > At(ebitda, i).v
                     THEN <<Warning("error", "oi_exceeds_ebitda", i + 1, oi, At(ebitda, i).v)>>
                     ELSE <<>>
        ELSE <<>>

RECURSIVE Check2From(_, _, _, _)
\* Lines 410-420: for (let i = 0; i < 3; i++).
Check2From(gp, sga, ebitda, i) ==
    IF i < HistWindow
        THEN Check2Year(gp, sga, ebitda, i) \o Check2From(gp, sga, ebitda, i + 1)
        ELSE <<>>

\* Check3Year without the Math.abs around ebitda[i] of line 425.
Check3Year_SignedThreshold(dep, ebitda, i) ==
    IF /\ NotNullish(At(dep, i)) /\ NotNullish(At(ebitda, i))
       /\ 100 * Abs(At(dep, i).v - At(ebitda, i).v) < At(ebitda, i).v * 15
        THEN <<Warning("error", "depreciation_equals_ebitda", i + 1,
                       At(dep, i).v, At(ebitda, i).v)>>
        ELSE <<>>

\* Lines 425-430: one pass of the loop of check 3.  The comparison
\* |dep - ebitda| < |ebitda| * 0.15 is taken in hundredths; on the integers
\* of the model the floating-point product decides the same way.
Check3Year(dep, ebitda, i) ==
    IF /\ NotNullish(At(dep, i)) /\ NotNullish(At(ebitda, i))
       /\ 100 * Abs(At(dep, i).v - At(ebitda, i).v) < Abs(At(ebitda, i).v) * 15
        THEN <<Warning("error", "depreciation_equals_ebitda", i + 1,
                       At(dep, i).v, At(ebitda, i).v)>>
        ELSE <<>>

RECURSIVE Check3From(_, _, _)
\* Lines 424-431.
Check3From(dep, ebitda, i) ==
    IF i < HistWindow
        THEN Check3Year(dep, ebitda, i) \o Check3From(dep, ebitda, i + 1)
        ELSE <<>>

\* Check4 with && for the || of line 434.
Check4_NeedsBoth(corrections, derivations) ==
    IF Len(corrections) > 0 /\ Len(derivations) > 0
        THEN <<Warning("info", "applied", 0, Len(corrections), Len(derivations))>>
        ELSE <<>>

\* Lines 434-439.
Check4(corrections, derivations) ==
    IF Len(corrections) > 0 \/ Len(derivations) > 0
        THEN <<Warning("info", "applied", 0, Len(corrections), Len(derivations))>>
        ELSE <<>>

\* Lines 391-439: the warnings array in the order it is rendered.  A missing
\* financial array reads as [] (lines 397, 407-409, 423) and is given as <<>>.
RenderIntegrityWarnings(ext) ==
    Check1(ext.net_revenue_hist)
        \o Check2From(ext.gross_profit_hist, ext.sga_hist, ext.adj_ebitda_hist, 0)
        \o Check3From(ext.depreciation_hist, ext.adj_ebitda_hist, 0)
        \o Check4(OrEmpty(ext.corrections_applied), OrEmpty(ext.derivations_applied))

\* viewAnalysis calls renderIntegrityWarnings(ext) (line 345).
RenderWarnings ==
    /\ input.fn = "renderIntegrityWarnings"
    /\ ~output.done
    /\ output' = Returned(RenderIntegrityWarnings(input.ext))
    /\ UNCHANGED <<uploadedFiles, statusText, interval, activePollers, fetching,
                   dashboardLoads, uploading, last, settled, input>>

\* The page as loaded, before any upload.
PageLoaded ==
    /\ uploadedFiles = {}
    /\ statusText = [d \in Docs |-> "none"]
    /\ interval = [d \in Docs |-> "none"]
    /\ activePollers = {}
    /\ fetching = [d \in Docs |-> 0]
    /\ dashboardLoads = [d \in Docs |-> 0]
    /\ uploading = 0
    /\ last = Step("init", {})
    /\ settled = {}

SeqsUpTo(S, n) == UNION {[1..k -> S] : k \in 0..n}

\* A list that is missing, or present with 0..MaxNotes entries.
NoteLists ==
    {[present |-> FALSE, items |-> <<>>]}
        \cup {[present |-> TRUE, items |-> l] : l \in SeqsUpTo({"note"}, MaxNotes)}

Extraction(rev, gp, sga, ebitda, dep, corr, deriv) ==
    [net_revenue_hist |-> rev, gross_profit_hist |-> gp, sga_hist |-> sga,
     adj_ebitda_hist |-> ebitda, depreciation_hist |-> dep,
     corrections_applied |-> corr, derivations_applied |-> deriv]

\* Revenue arrays of every length up to MaxHist.
RevenueArrays == SeqsUpTo({Null, Undefined, Num(100)}, MaxHist)

\* The other four arrays of those extractions: all missing, or a short set
\* that trips checks 2 and 3.
RowPresets ==
    {<<<<>>, <<>>, <<>>, <<>>>>,
     <<<<Num(30), Num(30)>>, <<Num(10), Num(10)>>,
       <<Num(0), Num(20)>>, <<Num(17), Num(18)>>>>}

\* Extractions whose revenue array and applied lists vary.
InitRevenue ==
    /\ PageLoaded
    /\ \E rev \in RevenueArrays, rows \in RowPresets,
          corr \in NoteLists, deriv \in NoteLists :
          input = [fn |-> "renderIntegrityWarnings",
                   ext |-> Extraction(rev, rows[1], rows[2], rows[3], rows[4],
                                      corr, deriv)]
    /\ output = NotRun

\* Extractions whose three historical years vary in gross profit, SG&A,
\* EBITDA and depreciation: values on both sides of each comparison and at
\* its boundary, null and undefined entries.
InitRows ==
    /\ PageLoaded
    /\ \E gp \in [1..HistWindow -> {Null, Num(30)}],
          sga \in [1..HistWindow -> {Undefined, Num(10)}],
          ebitda \in [1..HistWindow -> {Null, Num(0), Num(20), Num(-20)}],
          dep \in [1..HistWindow -> {Null, Num(17), Num(18), Num(-18)}] :
          input = [fn |-> "renderIntegrityWarnings",
                   ext |-> Extraction(<<Num(100), Null, Num(100)>>, gp, sga, ebitda, dep,
                                      [present |-> TRUE, items |-> <<"note">>],
                                      [present |-> FALSE, items |-> <<>>])]
    /\ output = NotRun

NextIntegrity == RenderWarnings

SpecRevenue == InitRevenue /\ [][NextIntegrity]_vars

SpecRows == InitRows /\ [][NextIntegrity]_vars

----------------------------------------------------------------------------
(* Properties of renderIntegrityWarnings *)

\* renderIntegrityWarnings has returned.
WarningsReady == input.fn = "renderIntegrityWarnings" /\ output.done

\* The warnings of one kind; for checks 2 and 3, of one kind and one year.
WarningsOf(kind) == SelectSeq(output.val, LAMBDA w : w.kind = kind)

WarningsFor(kind, year) ==
    SelectSeq(output.val, LAMBDA w : w.kind = kind /\ w.year = year)

Years == 0..(HistWindow - 1)

\* C11: the count in the revenue-missing warning is the number of null
\* entries among historical revenue positions 0, 1 and 2, whatever the length
\* of the array; the warning is there exactly when that count is above 0.
C11_RevenueCountFirstThree ==
    WarningsReady =>
        LET rev == input.ext.net_revenue_hist
            n == Cardinality({i \in Years : At(rev, i) = Null})
            ws == WarningsOf("revenue_missing")
        IN  IF n > 0 THEN Len(ws) = 1 /\ ws[1].a = n /\ ws[1].level = "error"
                     ELSE Len(ws) = 0

\* C12: for each historical position i in 0..2 with depreciation and EBITDA
\* both non-null and EBITDA not 0, there is a depreciation-equals-EBITDA error
\* for year i+1 exactly when |depreciation - ebitda| < 0.15 * |ebitda|, and
\* never more than one; a position with either value null has none.
C12_DepreciationRule ==
    WarningsReady =>
        \A i \in Years :
            LET d == At(input.ext.depreciation_hist, i)
                e == At(input.ext.adj_ebitda_hist, i)
                ws == WarningsFor("depreciation_equals_ebitda", i + 1)
            IN  /\ (NotNullish(d) /\ NotNullish(e) /\ e.v # 0) =>
                       /\ Len(ws) = IF 100 * Abs(d.v - e.v) < 15 * Abs(e.v) THEN 1 ELSE 0
                       /\ \A k \in 1..Len(ws) : ws[k].level = "error"
                /\ (~NotNullish(d) \/ ~NotNullish(e)) => Len(ws) = 0

C12_Witness ==
    /\ WarningsReady
    /\ \E i \in Years, j \in Years, k \in Years :
        /\ At(input.ext.depreciation_hist, i) = Num(-18)
        /\ At(input.ext.adj_ebitda_hist, i) = Num(-20)
        /\ Len(WarningsFor("depreciation_equals_ebitda", i + 1)) = 1
        /\ At(input.ext.depreciation_hist, j) = Num(17)
        /\ At(input.ext.adj_ebitda_hist, j) = Num(20)
        /\ Len(WarningsFor("depreciation_equals_ebitda", j + 1)) = 0
        /\ At(input.ext.depreciation_hist, k) = Null
        /\ At(input.ext.adj_ebitda_hist, k) = Num(20)

\* C13: for each historical position i in 0..2 with gross profit, SG&A and
\* EBITDA all non-null, there is exactly one operating-income-exceeds-EBITDA
\* error naming year i+1 if gross_profit - sga > ebitda and none otherwise; a
\* position with any of the three null or absent has none.
C13_OperatingIncomeRule ==
    WarningsReady =>
        \A i \in Years :
            LET g == At(input.ext.gross_profit_hist, i)
                s == At(input.ext.sga_hist, i)
                e == At(input.ext.adj_ebitda_hist, i)
                ws == WarningsFor("oi_exceeds_ebitda", i + 1)
            IN  /\ (NotNullish(g) /\ NotNullish(s) /\ NotNullish(e)) =>
                       /\ Len(ws) = IF g.v - s.v > e.v THEN 1 ELSE 0
                       /\ \A k \in 1..Len(ws) : ws[k].level = "error"
                /\ (~NotNullish(g) \/ ~NotNullish(s) \/ ~NotNullish(e)) => Len(ws) = 0

C13_Witness ==
    /\ WarningsReady
    /\ \E i \in Years, j \in Years, k \in Years :
        /\ At(input.ext.gross_profit_hist, i) = Num(30)
        /\ At(input.ext.sga_hist, i) = Num(10)
        /\ At(input.ext.adj_ebitda_hist, i) = Num(0)
        /\ Len(WarningsFor("oi_exceeds_ebitda", i + 1)) = 1
        /\ At(input.ext.gross_profit_hist, j) = Num(30)
        /\ At(input.ext.sga_hist, j) = Num(10)
        /\ At(input.ext.adj_ebitda_hist, j) = Num(20)
        /\ Len(WarningsFor("oi_exceeds_ebitda", j + 1)) = 0
        /\ At(input.ext.sga_hist, k) = Undefined
        /\ At(input.ext.adj_ebitda_hist, k) = Num(-20)

\* C14: there is exactly one info warning when the extraction carries at
\* least one auto-correction or at least one derivation, and none when both
\* lists are empty or missing; it states the two list lengths and it is the
\* last warning.
C14_ProvenanceSummary ==
    WarningsReady =>
        LET n == Len(OrEmpty(input.ext.corrections_applied))
            m == Len(OrEmpty(input.ext.derivations_applied))
            infos == SelectSeq(output.val, LAMBDA w : w.level = "info")
        IN  IF n > 0 \/ m > 0
                THEN /\ Len(infos) = 1
                     /\ infos[1].a = n /\ infos[1].b = m
                     /\ output.val[Len(output.val)] = infos[1]
                ELSE Len(infos) = 0

C14_Witness ==
    /\ WarningsReady
    /\ ~input.ext.corrections_applied.present
    /\ Len(input.ext.derivations_applied.items) = 2
    /\ Len(output.val) = 4
    /\ output.val[4].level = "info"
    /\ output.val[4].a = 0 /\ output.val[4].b = 2

----------------------------------------------------------------------------
(* Provenance: moneyCell, capexCell, getCapexMethodTooltip, getSource, dealVal *)

\* A provenance tag as the renderers see it.  'derived:<method>' is kind
\* "derived" with that method, bare 'derived' has method ""; "absent" is a
\* missing key, null, undefined or '' (all falsy); "other" is any other string.
Tag(kind, method) == [kind |-> kind, method |-> method]

Absent == Tag("absent", "")

Direct == Tag("direct", "")

DerivedBare == Tag("derived", "")

\* The four methods of the tooltip table and one that is not in it.
Methods == {"capex_revenue_ratio", "flat_last_known", "depreciation_ratio",
            "industry_default", "unlisted_method"}

Tags == {Absent, Direct, DerivedBare, Tag("other", "")}
            \cup {Tag("derived", m) : m \in Methods}

\* Values handed to the cell renderers.
CellValues == {Null, Undefined, Num(-250), Num(0), Num(1500)}

\* A rendered cell: '--' or the formatted value val, the negative class, the
\* (est.) marker and the marker's tooltip.
Cell(dash, val, est, tooltip) ==
    [dash |-> dash, val |-> val, negative |-> (~dash /\ val < 0), est |-> est,
     tooltip |-> tooltip]

\* Lines 90-95.
MoneyCell(val, source) ==
    IF ~NotNullish(val) THEN Cell(TRUE, 0, FALSE, "")
    ELSE Cell(FALSE, val.v, source = DerivedBare, "")

\* Lines 114-123.
GetCapexMethodTooltip(source) ==
    IF source.kind = "derived"
          /\ source.method \in {"capex_revenue_ratio", "flat_last_known",
                                "depreciation_ratio", "industry_default"}
        THEN source.method
        ELSE "estimated_value"

\* Lines 101-112.
CapexCell(val, source) ==
    IF ~NotNullish(val) THEN Cell(TRUE, 0, FALSE, "")
    ELSE IF source = Absent \/ source = Direct THEN Cell(FALSE, val.v, FALSE, "")
    ELSE Cell(FALSE, val.v, TRUE, GetCapexMethodTooltip(source))

\* The field_sources object: missing, or the tags stored under '<key>_0',
\* '<key>_1', '<key>_2' and under the bare '<key>' of one field.
NoSources == [present |-> FALSE, indexed |-> <<Absent, Absent, Absent>>, bare |-> Absent]

Sources(indexed, bare) == [present |-> TRUE, indexed |-> indexed, bare |-> bare]

\* GetSource with the bare key tried before the indexed key.
GetSource_BareFirst(sources, index) ==
    IF ~sources.present THEN Absent
    ELSE IF sources.bare # Absent THEN sources.bare
    ELSE IF At(sources.indexed, index) # Absent THEN At(sources.indexed, index)
    ELSE Absent

\* Lines 126-129: sources[key + '_' + index] || sources[key] || null.
GetSource(sources, index) ==
    IF ~sources.present THEN Absent
    ELSE IF At(sources.indexed, index) # Absent THEN At(sources.indexed, index)
    ELSE IF sources.bare # Absent THEN sources.bare
    ELSE Absent

\* Lines 679-684; fmtMoney and fmtMultiple return '--' for null and undefined only.
DealVal(val, sources) ==
    IF ~NotNullish(val) THEN Cell(TRUE, 0, FALSE, "")
    ELSE Cell(FALSE, val.v, sources.present /\ sources.bare = DerivedBare, "")

\* The rows of renderHistoricalTable / renderProjectionsTable (lines 574, 630)
\* and the items of renderDealStructure (lines 687-688) make these calls.
MoneyCellCall ==
    /\ input.fn = "moneyCell"
    /\ ~output.done
    /\ output' = Returned(MoneyCell(input.val, input.source))
    /\ UNCHANGED <<uploadedFiles, statusText, interval, activePollers, fetching,
                   dashboardLoads, uploading, last, settled, input>>

CapexCellCall ==
    /\ input.fn = "capexCell"
    /\ ~output.done
    /\ output' = Returned(CapexCell(input.val, input.source))
    /\ UNCHANGED <<uploadedFiles, statusText, interval, activePollers, fetching,
                   dashboardLoads, uploading, last, settled, input>>

DealValCall ==
    /\ input.fn = "dealVal"
    /\ ~output.done
    /\ output' = Returned(DealVal(input.val, input.sources))
    /\ UNCHANGED <<uploadedFiles, statusText, interval, activePollers, fetching,
                   dashboardLoads, uploading, last, settled, input>>

GetSourceCall ==
    /\ input.fn = "getSource"
    /\ ~output.done
    /\ output' = Returned(GetSource(input.sources, input.index))
    /\ UNCHANGED <<uploadedFiles, statusText, interval, activePollers, fetching,
                   dashboardLoads, uploading, last, settled, input>>

\* Tags a field_sources object stores.
StoredTags == {Absent, Direct, DerivedBare, Tag("derived", "flat_last_known")}

InitProvenance ==
    /\ PageLoaded
    /\ output = NotRun
    /\ \/ \E fn \in {"moneyCell", "capexCell"}, val \in CellValues, source \in Tags :
             input = [fn |-> fn, val |-> val, source |-> source]
       \/ \E val \in CellValues, tag \in Tags, present \in BOOLEAN :
             input = [fn |-> "dealVal", val |-> val,
                      sources |-> IF present THEN Sources(<<Absent, Absent, Absent>>, tag)
                                             ELSE NoSources]
       \/ \E indexed \in [1..HistWindow -> StoredTags], bare \in StoredTags,
             index \in 0..(HistWindow - 1), present \in BOOLEAN :
             input = [fn |-> "getSource", index |-> index,
                      sources |-> IF present THEN Sources(indexed, bare) ELSE NoSources]

NextProvenance ==
    \/ MoneyCellCall
    \/ CapexCellCall
    \/ DealValCall
    \/ GetSourceCall

SpecProvenance == InitProvenance /\ [][NextProvenance]_vars

----------------------------------------------------------------------------
(* Properties of the provenance rendering *)

\* The provenance tag a finished cell-renderer call was given.
CellTag ==
    IF input.fn = "dealVal"
        THEN (IF input.sources.present THEN input.sources.bare ELSE Absent)
        ELSE input.source

\* C15: every cell renderer that takes a provenance tag (moneyCell, capexCell,
\* dealVal) renders a non-null value plain when the tag is 'direct' or absent
\* and with the (est.) marker when the tag begins with 'derived'.
C15_DerivedGetsMarker ==
    (input.fn \in {"moneyCell", "capexCell", "dealVal"} /\ output.done
        /\ NotNullish(input.val)) =>
        /\ CellTag.kind \in {"direct", "absent"} => ~output.val.est
        /\ CellTag.kind = "derived" => output.val.est

\* C16: getSource returns the tag stored under '<field>_<index>' when there
\* is one, else the tag stored under the bare '<field>' when there is one,
\* else null; and a null tag renders exactly as 'direct' does.
C16_SourceLookupOrder ==
    (input.fn = "getSource" /\ output.done) =>
        LET byIndex == IF input.sources.present
                           THEN input.sources.indexed[input.index + 1] ELSE Absent
            byField == IF input.sources.present THEN input.sources.bare ELSE Absent
        IN  /\ byIndex # Absent => output.val = byIndex
            /\ (byIndex = Absent /\ byField # Absent) => output.val = byField
            /\ (byIndex = Absent /\ byField = Absent) =>
                   /\ output.val = Absent
                   /\ \A v \in CellValues :
                         /\ CapexCell(v, output.val) = CapexCell(v, Direct)
                         /\ MoneyCell(v, output.val) = MoneyCell(v, Direct)

C16_Witness ==
    /\ input.fn = "getSource" /\ output.done
    /\ input.sources.present
    /\ input.sources.indexed = <<Absent, Tag("derived", "flat_last_known"), Absent>>
    /\ input.sources.bare = Direct
    /\ input.index = 1
    /\ output.val = Tag("derived", "flat_last_known")

====
